---- MODULE Spec2Model ----
(***************************************************************************)
(* Model of the vocabulary scripts of tg-word-reminder:                    *)
(*   scripts/translate_vocab.py  (translate, main)  -- "Translator"        *)
(*   scripts/merge_vocab.py      (parse_pair, main) -- "Merger"            *)
(* A Python str is a sequence of one-character strings; a CSV file is the  *)
(* sequence of its rows; a dict is a function whose DOMAIN is its key set. *)
(***************************************************************************)
EXTENDS Integers, Sequences, FiniteSets, TLC

\* ------------------------------------------------------------------ bounds
MaxRows == 2          \* rows of the Translator's input CSV
MaxDirRows == 3       \* rows in the Merger's input directory, over all its files

\* ------------------------------------------------------- program constants
MAX_RETRIES == 10
TransientCodes == {429, 500, 502, 503, 504}
QuotaCode == 456

\* ----------------------------------------------------------------- strings
EmptyStr == <<>>
Ws == {" "}

RECURSIVE LStrip(_)
LStrip(s) == IF s # <<>> /\ Head(s) \in Ws THEN LStrip(Tail(s)) ELSE s

RECURSIVE RStrip(_)
RStrip(s) ==
    IF s # <<>> /\ s[Len(s)] \in Ws THEN RStrip(SubSeq(s, 1, Len(s) - 1)) ELSE s

\* str.strip()
Strip(s) == RStrip(LStrip(s))

RECURSIVE Pow2(_)
Pow2(n) == IF n = 0 THEN 1 ELSE 2 * Pow2(n - 1)

\* dict helpers
DictGetOr(d, k, default) == IF k \in DOMAIN d THEN d[k] ELSE default
DictPut(d, k, v) == [x \in DOMAIN d \cup {k} |-> IF x = k THEN v ELSE d[x]]
EmptyDict == [x \in {} |-> EmptyStr]

\* ------------------------------------------------- Translator: environment
\* Input cells and rows the checks enumerate.
A == <<"a">>
B == <<"b">>
PadA == <<" ", "a">>
PadB == <<"b", " ">>
Blank == <<" ">>

TextPool == {EmptyStr, Blank, A, PadA, B}
RowPool == { <<A>>, <<Blank, B>>, <<A, EmptyStr>>,
             <<A, B>>, <<PadA, PadB>>, <<B, A, B>> }

RECURSIVE SeqsUpTo(_, _)
SeqsUpTo(S, n) ==
    IF n = 0 THEN {<<>>}
    ELSE LET shorter == SeqsUpTo(S, n - 1)
         IN  shorter \cup {Append(s, x) : s \in {t \in shorter : Len(t) = n - 1}, x \in S}

\* The remote service: the text it gives for (text, source, target).
DeepL(text, source, target) == <<source, target>> \o text
Junk == <<"?">>

\* JSON bodies a 200 response can carry: the "translations" list of texts.
Bodies(text, source, target) ==
    { <<>>, <<EmptyStr>>, <<DeepL(text, source, target)>>,
      <<DeepL(text, source, target), Junk>> }

HttpCodes == TransientCodes \cup {QuotaCode, 404}
JitterMs == {0, 999}

NoError == [type |-> "None", code |-> 0]
URLError == [type |-> "URLError", code |-> 0]
HTTPError(c) == [type |-> "HTTPError", code |-> c]

NoExc == [type |-> "None", message |-> "", source |-> "", target |-> "",
          text |-> EmptyStr, cause |-> NoError]
RuntimeError(m, s, t, x, c) ==
    [type |-> "RuntimeError", message |-> m, source |-> s, target |-> t,
     text |-> x, cause |-> c]
Reraise(e) ==
    [type |-> e.type, message |-> "", source |-> "", target |-> "",
     text |-> EmptyStr, cause |-> NoError]

\* ------------------------------------------------------ Translator: tables
CacheNames == {"nl_ru", "en_ru", "en_es", "en_de", "en_fr"}

\* the five translate() calls of one row, in program order
Calls == <<
    [var |-> "russian_from_dutch",   arg |-> "dutch",   source |-> "NL", target |-> "RU", cache |-> "nl_ru"],
    [var |-> "russian_from_english", arg |-> "english", source |-> "EN", target |-> "RU", cache |-> "en_ru"],
    [var |-> "spanish_from_english", arg |-> "english", source |-> "EN", target |-> "ES", cache |-> "en_es"],
    [var |-> "german_from_english",  arg |-> "english", source |-> "EN", target |-> "DE", cache |-> "en_de"],
    [var |-> "french_from_english",  arg |-> "english", source |-> "EN", target |-> "FR", cache |-> "en_fr"] >>

\* Writes with the columns of spanish-english.csv exchanged
Writes_Swapped == <<
    [file |-> "dutch_russian",   left |-> "dutch",                right |-> "russian_from_dutch"],
    [file |-> "english_russian", left |-> "english",              right |-> "russian_from_english"],
    [file |-> "spanish_english", left |-> "english",              right |-> "spanish_from_english"],
    [file |-> "spanish_russian", left |-> "spanish_from_english", right |-> "russian_from_english"],
    [file |-> "german_english",  left |-> "german_from_english",  right |-> "english"],
    [file |-> "german_russian",  left |-> "german_from_english",  right |-> "russian_from_english"],
    [file |-> "french_english",  left |-> "french_from_english",  right |-> "english"],
    [file |-> "french_russian",  left |-> "french_from_english",  right |-> "russian_from_english"] >>

\* the eight writerow() calls of one row, in program order
Writes == <<
    [file |-> "dutch_russian",   left |-> "dutch",                right |-> "russian_from_dutch"],
    [file |-> "english_russian", left |-> "english",              right |-> "russian_from_english"],
    [file |-> "spanish_english", left |-> "spanish_from_english", right |-> "english"],
    [file |-> "spanish_russian", left |-> "spanish_from_english", right |-> "russian_from_english"],
    [file |-> "german_english",  left |-> "german_from_english",  right |-> "english"],
    [file |-> "german_russian",  left |-> "german_from_english",  right |-> "russian_from_english"],
    [file |-> "french_english",  left |-> "french_from_english",  right |-> "english"],
    [file |-> "french_russian",  left |-> "french_from_english",  right |-> "russian_from_english"] >>

OutputNames == {Writes[i].file : i \in 1..Len(Writes)}
LocalNames == {"dutch", "english"} \cup {Calls[i].var : i \in 1..Len(Calls)}
NoLocals == [n \in LocalNames |-> EmptyStr]

\* ------------------------------------------------------------------- state
VARIABLES
    \* Translator main()
    input,          \* rows csv.reader yields
    idx,            \* enumerate(reader, start=1)
    locals,         \* dutch, english and the five translations of the row
    callNo,         \* which of the five translate() calls is next / running
    writeNo,        \* which of the eight writerow() calls is next
    caches,         \* the five per-language-pair dicts
    files,          \* the eight output files (rows written so far)
    pc,             \* position of the Translator
    \* translate() frame
    text, source, target, cacheName,
    attempt,        \* loop variable of range(MAX_RETRIES)
    last_error,
    wait,           \* milliseconds of the last backoff sleep
    ret,            \* value returned by translate()
    exc,            \* exception leaving translate()
    \* instrumentation of one translate() call (what a fake transport/clock sees)
    netCalls,       \* urlopen() calls
    backoffSleeps,  \* time.sleep(wait) calls
    delaySleeps,    \* time.sleep(REQUEST_DELAY_SECONDS) calls
    cache0          \* the cache argument as it was on entry

tvars == <<input, idx, locals, callNo, writeNo, caches, files, pc,
           text, source, target, cacheName, attempt, last_error, wait, ret, exc,
           netCalls, backoffSleeps, delaySleeps, cache0>>

\* Merger main()
VARIABLES
    dir,            \* input directory: file name -> rows csv.reader yields
    fileList,       \* sorted(input_dir.glob("*.csv"))
    fileNo,         \* position of the for loop over fileList
    rowNo,          \* position of the for loop over the open file's rows
    pair,           \* (left, right) of the open file
    english_to,     \* language -> dict english word -> other word
    english_order,
    english_seen,
    outDirCreated,  \* output_csv.parent.mkdir() was called
    outOpened,      \* output_csv.open("w") was called
    output,         \* rows written to output_csv
    outNo,          \* position of the for loop over english_order
    missing_counts,
    report,         \* the "missing <lang>: <count>" lines printed
    exitCode,       \* value main() returned (-1: still running)
    mpc             \* position of the Merger

mvars == <<dir, fileList, fileNo, rowNo, pair, english_to, english_order,
           english_seen, outDirCreated, outOpened, output, outNo,
           missing_counts, report, exitCode, mpc>>

vars == <<tvars, mvars>>

\* --------------------------------------------------- Translator: translate
\* lines 23-24: cache.get(text) is not None
CacheHit_Truthy(cache, t) == t \in DOMAIN cache /\ cache[t] # EmptyStr
CacheHit(cache, t) == t \in DOMAIN cache

\* lines 20-25 and 38: strip, empty check, cache lookup, loop entry
TranslateEnter ==
    /\ UNCHANGED mvars
    /\ pc = "translate"
    /\ LET t == Strip(text) IN
       /\ text' = t
       /\ cache0' = caches[cacheName]
       /\ netCalls' = 0 /\ backoffSleeps' = 0 /\ delaySleeps' = 0
       /\ last_error' = NoError
       /\ attempt' = 0
       /\ IF t = EmptyStr
             THEN ret' = EmptyStr /\ pc' = "returned"
          ELSE IF CacheHit(caches[cacheName], t)
             THEN ret' = caches[cacheName][t] /\ pc' = "returned"
          ELSE ret' = ret /\ pc' = "loop"
    /\ UNCHANGED <<input, idx, locals, callNo, writeNo, caches, files,
                   source, target, cacheName, wait, exc>>

\* lines 63-65: backoff after a retryable failure, then the next iteration
Backoff(err, jitter) ==
    /\ last_error' = err
    /\ wait' = 1000 * Pow2(attempt) + jitter
    /\ backoffSleeps' = backoffSleeps + 1
    /\ attempt' = attempt + 1
    /\ pc' = "loop"
    /\ UNCHANGED <<caches, delaySleeps, ret, exc>>

\* OnBody with the cache written before the emptiness checks
OnBody_CacheFirst(translations) ==
    IF translations = <<>> \/ translations[1] = EmptyStr
    THEN /\ caches' = [caches EXCEPT ![cacheName] = DictPut(@, text, EmptyStr)]
         /\ exc' = RuntimeError("empty translation", source, target, text, NoError)
         /\ pc' = "raised"
         /\ UNCHANGED <<delaySleeps, ret, last_error, wait, backoffSleeps, attempt>>
    ELSE /\ caches' = [caches EXCEPT ![cacheName] = DictPut(@, text, translations[1])]
         /\ delaySleeps' = delaySleeps + 1
         /\ ret' = translations[1]
         /\ pc' = "returned"
         /\ UNCHANGED <<exc, last_error, wait, backoffSleeps, attempt>>

\* lines 44-53: a 200 response with JSON body `translations`
OnBody(translations) ==
    IF translations = <<>> \/ translations[1] = EmptyStr
    THEN /\ exc' = RuntimeError("empty translation", source, target, text, NoError)
         /\ pc' = "raised"
         /\ UNCHANGED <<caches, delaySleeps, ret, last_error, wait,
                        backoffSleeps, attempt>>
    ELSE /\ caches' = [caches EXCEPT ![cacheName] = DictPut(@, text, translations[1])]
         /\ delaySleeps' = delaySleeps + 1
         /\ ret' = translations[1]
         /\ pc' = "returned"
         /\ UNCHANGED <<exc, last_error, wait, backoffSleeps, attempt>>

\* OnHTTPError with 404 among the retried statuses
OnHTTPError_Retry404(c, jitter) ==
    IF c = QuotaCode
    THEN /\ exc' = RuntimeError("DeepL quota exceeded", "", "", EmptyStr, HTTPError(c))
         /\ last_error' = HTTPError(c)
         /\ pc' = "raised"
         /\ UNCHANGED <<caches, delaySleeps, ret, wait, backoffSleeps, attempt>>
    ELSE IF c \notin TransientCodes \cup {404}
    THEN /\ exc' = Reraise(HTTPError(c))
         /\ last_error' = HTTPError(c)
         /\ pc' = "raised"
         /\ UNCHANGED <<caches, delaySleeps, ret, wait, backoffSleeps, attempt>>
    ELSE Backoff(HTTPError(c), jitter)

\* lines 54-59: urlopen raised HTTPError with status c
OnHTTPError(c, jitter) ==
    IF c = QuotaCode
    THEN /\ exc' = RuntimeError("DeepL quota exceeded", "", "", EmptyStr, HTTPError(c))
         /\ last_error' = HTTPError(c)
         /\ pc' = "raised"
         /\ UNCHANGED <<caches, delaySleeps, ret, wait, backoffSleeps, attempt>>
    ELSE IF c \notin TransientCodes
    THEN /\ exc' = Reraise(HTTPError(c))
         /\ last_error' = HTTPError(c)
         /\ pc' = "raised"
         /\ UNCHANGED <<caches, delaySleeps, ret, wait, backoffSleeps, attempt>>
    ELSE Backoff(HTTPError(c), jitter)

\* line 39: range(MAX_RETRIES) has another value for the loop variable
MoreAttempts_OneMore == attempt <= MAX_RETRIES
MoreAttempts == attempt < MAX_RETRIES

\* lines 39-65: one iteration of the retry loop
TranslateAttempt ==
    /\ UNCHANGED mvars
    /\ pc = "loop"
    /\ MoreAttempts
    /\ netCalls' = netCalls + 1
    /\ \/ \E body \in Bodies(text, source, target) : OnBody(body)
       \/ \E c \in HttpCodes, j \in JitterMs : OnHTTPError(c, j)
       \/ \E j \in JitterMs : Backoff(URLError, j)
    /\ UNCHANGED <<input, idx, locals, callNo, writeNo, files,
                   text, source, target, cacheName, cache0>>

\* line 67: the loop ran out
TranslateExhausted ==
    /\ UNCHANGED mvars
    /\ pc = "loop"
    /\ ~MoreAttempts
    /\ exc' = RuntimeError("failed translation", source, target, text, last_error)
    /\ pc' = "raised"
    /\ UNCHANGED <<input, idx, locals, callNo, writeNo, caches, files,
                   text, source, target, cacheName, attempt, last_error, wait, ret,
                   netCalls, backoffSleeps, delaySleeps, cache0>>

\* -------------------------------------------------------- Translator: main
\* lines 120-126: next row of the reader; skip short or blank rows
MainRow ==
    /\ UNCHANGED mvars
    /\ pc = "row"
    /\ IF idx > Len(input)
       THEN /\ pc' = "done"
            /\ UNCHANGED <<idx, locals, callNo>>
       ELSE LET row == input[idx] IN
            IF Len(row) < 2
            THEN /\ idx' = idx + 1
                 /\ UNCHANGED <<pc, locals, callNo>>
            ELSE LET dutch == Strip(row[1])
                     english == Strip(row[2])
                 IN  IF dutch = EmptyStr \/ english = EmptyStr
                     THEN /\ idx' = idx + 1
                          /\ locals' = [locals EXCEPT !["dutch"] = dutch,
                                                      !["english"] = english]
                          /\ UNCHANGED <<pc, callNo>>
                     ELSE /\ locals' = [locals EXCEPT !["dutch"] = dutch,
                                                      !["english"] = english]
                          /\ callNo' = 1
                          /\ pc' = "call"
                          /\ idx' = idx
    /\ UNCHANGED <<input, writeNo, caches, files,
                   text, source, target, cacheName, attempt, last_error, wait, ret, exc,
                   netCalls, backoffSleeps, delaySleeps, cache0>>

\* lines 128-132: enter the callNo-th translate() call
MainCall ==
    /\ UNCHANGED mvars
    /\ pc = "call"
    /\ LET c == Calls[callNo] IN
       /\ text' = locals[c.arg]
       /\ source' = c.source
       /\ target' = c.target
       /\ cacheName' = c.cache
    /\ pc' = "translate"
    /\ UNCHANGED <<input, idx, locals, callNo, writeNo, caches, files,
                   attempt, last_error, wait, ret, exc,
                   netCalls, backoffSleeps, delaySleeps, cache0>>

\* lines 128-132: bind the value translate() returned
MainReturn ==
    /\ UNCHANGED mvars
    /\ pc = "returned"
    /\ locals' = [locals EXCEPT ![Calls[callNo].var] = ret]
    /\ IF callNo < Len(Calls)
       THEN callNo' = callNo + 1 /\ pc' = "call" /\ writeNo' = writeNo
       ELSE callNo' = callNo /\ pc' = "write" /\ writeNo' = 1
    /\ UNCHANGED <<input, idx, caches, files,
                   text, source, target, cacheName, attempt, last_error, wait, ret, exc,
                   netCalls, backoffSleeps, delaySleeps, cache0>>

\* lines 134-141: the writeNo-th writerow() of the row
MainWrite ==
    /\ UNCHANGED mvars
    /\ pc = "write"
    /\ LET w == Writes[writeNo] IN
       files' = [files EXCEPT ![w.file] = Append(@, <<locals[w.left], locals[w.right]>>)]
    /\ IF writeNo < Len(Writes)
       THEN writeNo' = writeNo + 1 /\ UNCHANGED <<pc, idx>>
       ELSE writeNo' = writeNo /\ pc' = "row" /\ idx' = idx + 1
    /\ UNCHANGED <<input, locals, callNo, caches,
                   text, source, target, cacheName, attempt, last_error, wait, ret, exc,
                   netCalls, backoffSleeps, delaySleeps, cache0>>

\* ------------------------------------------------------ Merger: file names
\* code-point order of the characters file names are made of
CharOrder == <<"-", ".", "a", "b", "c", "d", "e", "f", "g", "h", "i", "j", "k",
               "l", "m", "n", "o", "p", "q", "r", "s", "t", "u", "v", "w", "x",
               "y", "z">>
Ord(c) == CHOOSE i \in 1..Len(CharOrder) : CharOrder[i] = c

\* str < str
RECURSIVE StrLess(_, _)
StrLess(s, t) ==
    IF t = <<>> THEN FALSE
    ELSE IF s = <<>> THEN TRUE
    ELSE IF Head(s) # Head(t) THEN Ord(Head(s)) < Ord(Head(t))
    ELSE StrLess(Tail(s), Tail(t))

\* sorted(...)
RECURSIVE Sorted(_)
Sorted(S) ==
    IF S = {} THEN <<>>
    ELSE LET least == CHOOSE x \in S : \A y \in S \ {x} : StrLess(x, y)
         IN  <<least>> \o Sorted(S \ {least})

EndsWith(s, suffix) ==
    /\ Len(s) >= Len(suffix)
    /\ SubSeq(s, Len(s) - Len(suffix) + 1, Len(s)) = suffix

\* str.removesuffix
RemoveSuffix(s, suffix) ==
    IF EndsWith(s, suffix) THEN SubSeq(s, 1, Len(s) - Len(suffix)) ELSE s

\* str.split(sep) for a one-character separator
RECURSIVE Split(_, _)
Split(s, sep) ==
    IF \A i \in 1..Len(s) : s[i] # sep THEN <<s>>
    ELSE LET k == CHOOSE i \in 1..Len(s) :
                      s[i] = sep /\ \A j \in 1..(i - 1) : s[j] # sep
         IN  <<SubSeq(s, 1, k - 1)>> \o Split(SubSeq(s, k + 1, Len(s)), sep)

DotCsv == <<".", "c", "s", "v">>
English == <<"e", "n", "g", "l", "i", "s", "h">>
Russian == <<"r", "u", "s", "s", "i", "a", "n">>
Dutch == <<"d", "u", "t", "c", "h">>
Spanish == <<"s", "p", "a", "n", "i", "s", "h">>
German == <<"g", "e", "r", "m", "a", "n">>
French == <<"f", "r", "e", "n", "c", "h">>
Latin == <<"l", "a", "t", "i", "n">>
Notes == <<"n", "o", "t", "e", "s">>

LANG_CODE ==
    (English :> "en") @@ (Russian :> "ru") @@ (Dutch :> "nl") @@
    (Spanish :> "es") @@ (German :> "de") @@ (French :> "fr")

None == "None"
NoPair == <<>>

parse_pair(name) ==
    LET stem == RemoveSuffix(name, DotCsv)
        parts == Split(stem, "-")
    IN  IF Len(parts) # 2 THEN NoPair
        ELSE LET left == DictGetOr(LANG_CODE, parts[1], None)
                 right == DictGetOr(LANG_CODE, parts[2], None)
             IN  IF left = None \/ right = None THEN NoPair ELSE <<left, right>>

FileName(l, r) == l \o <<"-">> \o r \o DotCsv

\* ----------------------------------------------------- Merger: environment
C == <<"c">>
PadAPad == <<" ", "a", " ">>

NamePool == { FileName(Dutch, English), FileName(Dutch, Spanish),
              FileName(English, Russian), FileName(Russian, English),
              FileName(English, Latin), Notes \o DotCsv }
MRowPool == { <<A, B>>, <<PadAPad, C>>, <<B, A>>, <<A, Blank>>, <<A>> }

\* NamePool as a list
NameList == Sorted(NamePool)

\* a slot holds one row of one file (position in NameList), or nothing
NoSlot == <<Len(NameList) + 1, <<>>>>
Slots == ((1..Len(NameList)) \X MRowPool) \cup {NoSlot}

\* the slots list the rows file after file, the unused slots last
FileByFile(slots) ==
    \A i \in 1..(Len(slots) - 1) : slots[i][1] <= slots[i + 1][1]

\* the directory whose files hold the rows of the used slots, in their order
BuildDir(slots) ==
    LET Used(e) == e # NoSlot
        entries == SelectSeq(slots, Used)
    IN  [name \in {NameList[entries[i][1]] : i \in 1..Len(entries)} |->
            LET OfFile(e) == NameList[e[1]] = name
                mine == SelectSeq(entries, OfFile)
            IN  [i \in 1..Len(mine) |-> mine[i][2]]]

Header == <<"en", "ru", "nl", "es", "de", "fr">>
Targets == {"ru", "nl", "es", "de", "fr"}
HeaderText ==
    [en |-> <<"e", "n">>, ru |-> <<"r", "u">>, nl |-> <<"n", "l">>,
     es |-> <<"e", "s">>, de |-> <<"d", "e">>, fr |-> <<"f", "r">>]

\* ------------------------------------------------------------ Merger: main
\* line 41: the directory listing, sorted
MergerList ==
    /\ UNCHANGED tvars
    /\ mpc = "start"
    /\ fileList' = Sorted(DOMAIN dir)
    /\ fileNo' = 1
    /\ mpc' = "scan"
    /\ UNCHANGED <<dir, rowNo, pair, english_to, english_order, english_seen,
                   outDirCreated, outOpened, output, outNo, missing_counts,
                   report, exitCode>>

\* lines 43-47: the file is not read
SkipFile_Unresolved(p) == p = NoPair
SkipFile(p) == p = NoPair \/ (p[1] # "en" /\ p[2] # "en")

\* lines 41-49: next file of the listing; skip it or open it
MergerFile ==
    /\ UNCHANGED tvars
    /\ mpc = "scan"
    /\ IF fileNo > Len(fileList)
       THEN /\ mpc' = "check"
            /\ UNCHANGED <<fileNo, rowNo, pair>>
       ELSE LET p == parse_pair(fileList[fileNo]) IN
            IF SkipFile(p)
            THEN /\ fileNo' = fileNo + 1
                 /\ pair' = p
                 /\ UNCHANGED <<mpc, rowNo>>
            ELSE /\ pair' = p
                 /\ rowNo' = 1
                 /\ mpc' = "rows"
                 /\ UNCHANGED fileNo
    /\ UNCHANGED <<dir, fileList, english_to, english_order, english_seen,
                   outDirCreated, outOpened, output, outNo, missing_counts,
                   report, exitCode>>

\* Record without the english_seen test
Record_NoSeen(left_word, right_word) ==
    LET english == IF pair[1] = "en" THEN left_word ELSE right_word
        other_lang == IF pair[1] = "en" THEN pair[2] ELSE pair[1]
        other_word == IF pair[1] = "en" THEN right_word ELSE left_word
    IN  /\ english_order' = Append(english_order, english)
        /\ english_seen' = english_seen \cup {english}
        /\ IF other_lang \in DOMAIN english_to
           THEN english_to' = [english_to EXCEPT
                                   ![other_lang] = DictPut(@, english, other_word)]
           ELSE UNCHANGED english_to

\* Record keeping the first word seen for (language, english word)
Record_FirstWins(left_word, right_word) ==
    LET english == IF pair[1] = "en" THEN left_word ELSE right_word
        other_lang == IF pair[1] = "en" THEN pair[2] ELSE pair[1]
        other_word == IF pair[1] = "en" THEN right_word ELSE left_word
    IN  /\ IF english \notin english_seen
           THEN /\ english_order' = Append(english_order, english)
                /\ english_seen' = english_seen \cup {english}
           ELSE UNCHANGED <<english_order, english_seen>>
        /\ IF other_lang \in DOMAIN english_to /\ english \notin DOMAIN english_to[other_lang]
           THEN english_to' = [english_to EXCEPT
                                   ![other_lang] = DictPut(@, english, other_word)]
           ELSE UNCHANGED english_to

\* lines 58-72: a row with two non-empty trimmed words
Record(left_word, right_word) ==
    LET english == IF pair[1] = "en" THEN left_word ELSE right_word
        other_lang == IF pair[1] = "en" THEN pair[2] ELSE pair[1]
        other_word == IF pair[1] = "en" THEN right_word ELSE left_word
    IN  /\ IF english \notin english_seen
           THEN /\ english_order' = Append(english_order, english)
                /\ english_seen' = english_seen \cup {english}
           ELSE UNCHANGED <<english_order, english_seen>>
        /\ IF other_lang \in DOMAIN english_to
           THEN english_to' = [english_to EXCEPT
                                   ![other_lang] = DictPut(@, english, other_word)]
           ELSE UNCHANGED english_to

\* lines 50-72: next row of the open file
MergerRow ==
    /\ UNCHANGED tvars
    /\ mpc = "rows"
    /\ LET rows == dir[fileList[fileNo]] IN
       IF rowNo > Len(rows)
       THEN /\ fileNo' = fileNo + 1
            /\ mpc' = "scan"
            /\ UNCHANGED <<rowNo, english_to, english_order, english_seen>>
       ELSE /\ rowNo' = rowNo + 1
            /\ UNCHANGED <<fileNo, mpc>>
            /\ LET row == rows[rowNo] IN
               IF Len(row) < 2
               THEN UNCHANGED <<english_to, english_order, english_seen>>
               ELSE LET left_word == Strip(row[1])
                        right_word == Strip(row[2])
                    IN  IF left_word = EmptyStr \/ right_word = EmptyStr
                        THEN UNCHANGED <<english_to, english_order, english_seen>>
                        ELSE Record(left_word, right_word)
    /\ UNCHANGED <<dir, fileList, pair, outDirCreated, outOpened, output, outNo,
                   missing_counts, report, exitCode>>

\* lines 74-84: nothing found, or create the directory, open the output and
\* write the header
MergerOpen ==
    /\ UNCHANGED tvars
    /\ mpc = "check"
    /\ IF english_order = <<>>
       THEN /\ exitCode' = 2
            /\ mpc' = "exit"
            /\ UNCHANGED <<outDirCreated, outOpened, output, outNo, missing_counts>>
       ELSE /\ outDirCreated' = TRUE
            /\ outOpened' = TRUE
            /\ output' = << [i \in 1..Len(Header) |-> HeaderText[Header[i]]] >>
            /\ missing_counts' = [l \in {Header[i] : i \in 2..Len(Header)} |-> 0]
            /\ outNo' = 1
            /\ mpc' = "write"
            /\ UNCHANGED exitCode
    /\ UNCHANGED <<dir, fileList, fileNo, rowNo, pair, english_to, english_order,
                   english_seen, report>>

\* lines 86-92: the output row of one english word
OutputRow(english) ==
    <<english>> \o [i \in 1..(Len(Header) - 1) |->
                       DictGetOr(english_to[Header[i + 1]], english, EmptyStr)]

\* lines 85-98: next output row, or the missing-count report and return 0
MergerWrite ==
    /\ UNCHANGED tvars
    /\ mpc = "write"
    /\ IF outNo > Len(english_order)
       THEN /\ report' = {<<l, missing_counts[l]>> :
                             l \in {m \in DOMAIN missing_counts : missing_counts[m] # 0}}
            /\ exitCode' = 0
            /\ mpc' = "exit"
            /\ UNCHANGED <<output, outNo, missing_counts>>
       ELSE LET row == OutputRow(english_order[outNo]) IN
            /\ output' = Append(output, row)
            /\ missing_counts' =
                   [l \in DOMAIN missing_counts |->
                       LET i == CHOOSE j \in 2..Len(Header) : Header[j] = l
                       IN  IF row[i] = EmptyStr THEN missing_counts[l] + 1
                           ELSE missing_counts[l]]
            /\ outNo' = outNo + 1
            /\ UNCHANGED <<report, exitCode, mpc>>
    /\ UNCHANGED <<dir, fileList, fileNo, rowNo, pair, english_to, english_order,
                   english_seen, outDirCreated, outOpened>>

\* ----------------------------------------------------------- specifications
\* the Merger has not been started
IdleMerger ==
    /\ dir = [n \in {} |-> <<>>]
    /\ fileList = <<>> /\ fileNo = 1 /\ rowNo = 1 /\ pair = NoPair
    /\ english_to = [l \in Targets |-> EmptyDict]
    /\ english_order = <<>> /\ english_seen = {}
    /\ outDirCreated = FALSE /\ outOpened = FALSE /\ output = <<>> /\ outNo = 1
    /\ missing_counts = [l \in Targets |-> 0]
    /\ report = {}
    /\ exitCode = -1
    /\ mpc = "start"

InitFrame ==
    /\ attempt = 0 /\ last_error = NoError /\ wait = 0
    /\ ret = EmptyStr /\ exc = NoExc
    /\ netCalls = 0 /\ backoffSleeps = 0 /\ delaySleeps = 0

\* main() after the files are opened (lines 93-118)
InitMain ==
    /\ input \in SeqsUpTo(RowPool, MaxRows)
    /\ idx = 1
    /\ locals = NoLocals
    /\ callNo = 1 /\ writeNo = 1
    /\ caches = [n \in CacheNames |-> EmptyDict]
    /\ files = [f \in OutputNames |-> <<>>]
    /\ pc = "row"
    /\ IdleMerger
    /\ text = EmptyStr /\ source = "" /\ target = "" /\ cacheName = "nl_ru"
    /\ cache0 = EmptyDict
    /\ InitFrame

NextMain ==
    \/ MainRow
    \/ MainCall
    \/ TranslateEnter
    \/ TranslateAttempt
    \/ TranslateExhausted
    \/ MainReturn
    \/ MainWrite

SpecMain == InitMain /\ [][NextMain]_vars

\* one translate() call on arguments of the caller's choice
CachePool ==
    UNION { [K -> {EmptyStr, Junk, <<"E", "R", "a">>}] : K \in SUBSET {A, B} }

InitTranslate ==
    /\ input = <<>>
    /\ idx = 1
    /\ locals = NoLocals
    /\ callNo = 1 /\ writeNo = 1
    /\ \E c \in {"nl_ru", "en_ru"}, d \in CachePool :
          /\ cacheName = c
          /\ caches = [n \in CacheNames |-> IF n = c THEN d ELSE EmptyDict]
          /\ cache0 = d
          /\ source = (IF c = "nl_ru" THEN "NL" ELSE "EN")
    /\ target = "RU"
    /\ files = [f \in OutputNames |-> <<>>]
    /\ pc = "translate"
    /\ IdleMerger
    /\ text \in TextPool
    /\ InitFrame

NextTranslate ==
    \/ TranslateEnter
    \/ TranslateAttempt
    \/ TranslateExhausted

SpecTranslate == InitTranslate /\ [][NextTranslate]_vars

\* the interpreter keeps running the call until it returns or raises
FairTranslate == SpecTranslate /\ WF_vars(NextTranslate)
\* the Translator has not been started
IdleTranslator ==
    /\ input = <<>>
    /\ idx = 1
    /\ locals = NoLocals
    /\ callNo = 1 /\ writeNo = 1
    /\ caches = [n \in CacheNames |-> EmptyDict]
    /\ files = [f \in OutputNames |-> <<>>]
    /\ pc = "idle"
    /\ text = EmptyStr /\ source = "" /\ target = "" /\ cacheName = "nl_ru"
    /\ cache0 = EmptyDict
    /\ InitFrame

\* Merger main() after lines 34-39
InitMerger ==
    /\ IdleTranslator
    /\ \E slots \in [1..MaxDirRows -> Slots] :
          /\ FileByFile(slots)
          /\ dir = BuildDir(slots)
    /\ fileList = <<>> /\ fileNo = 1 /\ rowNo = 1 /\ pair = NoPair
    /\ english_to = [l \in Targets |-> EmptyDict]
    /\ english_order = <<>> /\ english_seen = {}
    /\ outDirCreated = FALSE /\ outOpened = FALSE /\ output = <<>> /\ outNo = 1
    /\ missing_counts = [l \in Targets |-> 0]
    /\ report = {}
    /\ exitCode = -1
    /\ mpc = "start"

NextMerger ==
    \/ MergerList
    \/ MergerFile
    \/ MergerRow
    \/ MergerOpen
    \/ MergerWrite

SpecMerger == InitMerger /\ [][NextMerger]_vars
\* ------------------------------------------------------- Translator: claims
\* a row main() translates: two columns, both non-empty after trimming
ValidRow(row) ==
    /\ Len(row) >= 2
    /\ Strip(row[1]) # EmptyStr
    /\ Strip(row[2]) # EmptyStr

ValidRows(rows) == SelectSeq(rows, ValidRow)

Ended == pc \in {"returned", "raised"}

\* the call did not end on a non-retryable failure
TransientOnly ==
    /\ exc.type # "HTTPError"
    /\ exc.message \notin {"empty translation", "DeepL quota exceeded"}

\* C1: a translate() call on non-empty, uncached text whose failures are all
\* transient makes at most MAX_RETRIES network attempts and always ends; when an
\* attempt succeeds it returns that attempt's translation, and when it raises it
\* has made exactly MAX_RETRIES attempts and raises the "failed translation"
\* RuntimeError carrying source, target and text.
C1_RetryContract ==
    /\ [](netCalls <= MAX_RETRIES)
    /\ [](pc = "returned" /\ netCalls > 0 =>
            /\ ret = DeepL(text, source, target)
            /\ ret # EmptyStr)
    /\ [](pc = "raised" /\ TransientOnly =>
            /\ netCalls = MAX_RETRIES
            /\ last_error # NoError
            /\ exc = RuntimeError("failed translation", source, target, text, last_error))
    /\ (pc = "loop" ~> Ended)

\* nine transient failures, then a success on attempt MAX_RETRIES
C1_Witness ==
    /\ pc = "returned"
    /\ netCalls = MAX_RETRIES
    /\ backoffSleeps = MAX_RETRIES - 1
    /\ ret = DeepL(text, source, target)

\* C2: a 200 response without translations, or with an empty first text, never
\* ends the call while fewer than MAX_RETRIES attempts have been made.
C2_EmptyIsRetried ==
    ~(pc = "raised" /\ exc.message = "empty translation" /\ netCalls < MAX_RETRIES)

FilesHold(n) == \A f \in OutputNames : Len(files[f]) = n

\* C3: once an attempt got HTTP 456 or a status outside the retried ones, the
\* call has ended with an error (the quota RuntimeError for 456, the HTTPError
\* itself otherwise), without a sleep after that attempt and with the cache as
\* it was on entry; main() has written nothing for this row and takes no
\* further step: no later row is translated or written.
C3_FatalStatus ==
    /\ [](last_error.type = "HTTPError" /\ last_error.code \notin TransientCodes =>
            /\ pc = "raised"
            /\ exc = (IF last_error.code = QuotaCode
                      THEN RuntimeError("DeepL quota exceeded", "", "", EmptyStr, last_error)
                      ELSE Reraise(last_error))
            /\ backoffSleeps = netCalls - 1
            /\ delaySleeps = 0
            /\ caches[cacheName] = cache0
            /\ FilesHold(Len(ValidRows(SubSeq(input, 1, idx - 1)))))
    /\ [][pc = "raised" => UNCHANGED vars]_vars

\* quota exceeded on a retry of the first row, with a translatable row behind it
C3_Witness ==
    /\ pc = "raised"
    /\ last_error = HTTPError(QuotaCode)
    /\ netCalls >= 2
    /\ idx < Len(input)
    /\ ValidRow(input[idx + 1])

\* C4: a translate() call whose trimmed text is empty or is a key of the cache
\* passed in returns ("" or the cached value) without any network call or
\* sleep and leaves the cache as it was.
C4_NoNetwork ==
    (pc # "translate" /\ (text = EmptyStr \/ text \in DOMAIN cache0)) =>
        /\ pc = "returned"
        /\ netCalls = 0
        /\ backoffSleeps = 0
        /\ delaySleeps = 0
        /\ caches[cacheName] = cache0
        /\ ret = (IF text = EmptyStr THEN EmptyStr ELSE cache0[text])

C4_Witness ==
    /\ pc = "returned"
    /\ text \in DOMAIN cache0
    /\ ret = cache0[text]
    /\ netCalls = 0

\* what the eight files hold after the rows `rows`, by the service's texts
ExpectedFile(f, rows) ==
    LET v == ValidRows(rows) IN
    [i \in 1..Len(v) |->
        LET dutch == Strip(v[i][1])
            english == Strip(v[i][2])
            ru_nl == DeepL(dutch, "NL", "RU")
            ru == DeepL(english, "EN", "RU")
            es == DeepL(english, "EN", "ES")
            de == DeepL(english, "EN", "DE")
            fr == DeepL(english, "EN", "FR")
        IN  CASE f = "dutch_russian" -> <<dutch, ru_nl>>
              [] f = "english_russian" -> <<english, ru>>
              [] f = "spanish_english" -> <<es, english>>
              [] f = "spanish_russian" -> <<es, ru>>
              [] f = "german_english" -> <<de, english>>
              [] f = "german_russian" -> <<de, ru>>
              [] f = "french_english" -> <<fr, english>>
              [] f = "french_russian" -> <<fr, ru>>]

\* C7: when main() ends normally each of the eight files holds one row per
\* translatable input row, in input order, with the stated pairing; translate()
\* is only ever running for a translatable row.
C7_FanOut ==
    /\ pc = "done" => \A f \in OutputNames : files[f] = ExpectedFile(f, input)
    /\ pc \in {"call", "translate", "loop", "returned", "write", "raised"} =>
           idx <= Len(input) /\ ValidRow(input[idx])

\* a run over a skipped row and a translated row
C7_Witness ==
    /\ pc = "done"
    /\ Len(input) = 2
    /\ ~ValidRow(input[1])
    /\ Len(files["spanish_english"]) = 1

\* C9: a call that has ended after k >= 1 network attempts has slept k - 1
\* backoff sleeps.
C9_SleepsBetweenAttempts ==
    Ended /\ netCalls >= 1 => backoffSleeps = netCalls - 1

CacheSource(n) == IF n = "nl_ru" THEN "NL" ELSE "EN"
CacheTarget(n) ==
    CASE n = "nl_ru" -> "RU" [] n = "en_ru" -> "RU" [] n = "en_es" -> "ES"
      [] n = "en_de" -> "DE" [] n = "en_fr" -> "FR"

\* C10: wherever the Translator stops (normal end or a raise out of any of the
\* five calls) the eight files hold equally many rows, one per input row whose
\* five translations succeeded; every cache entry is the non-empty text the
\* service gave for that key and language pair.
C10_StopPoints ==
    /\ pc \in {"done", "raised"} =>
           FilesHold(Len(ValidRows(SubSeq(input, 1, idx - 1))))
    /\ \A n \in CacheNames : \A t \in DOMAIN caches[n] :
           /\ caches[n][t] # EmptyStr
           /\ caches[n][t] = DeepL(t, CacheSource(n), CacheTarget(n))

\* the second row fails in its third call, after the first row was written
C10_Witness ==
    /\ pc = "raised"
    /\ idx = 2
    /\ callNo = 3
    /\ FilesHold(1)
\* ----------------------------------------------------------- Merger: claims
\* the files of NamePool that are keyed by English, in lexical order, with the
\* other language and the column (1 or 2) that holds the English word
PivotFiles == <<
    [name |-> FileName(Dutch, English),   lang |-> "nl", col |-> 2],
    [name |-> FileName(English, Russian), lang |-> "ru", col |-> 1],
    [name |-> FileName(Russian, English), lang |-> "ru", col |-> 2] >>

\* the rows of the first n files of PivotFiles in directory d, in reading order
RECURSIVE Entries(_, _)
Entries(d, n) ==
    IF n = 0 THEN <<>>
    ELSE LET f == PivotFiles[n]
             rows == IF f.name \in DOMAIN d THEN d[f.name] ELSE <<>>
         IN  Entries(d, n - 1) \o
             [j \in 1..Len(rows) |-> [row |-> rows[j], lang |-> f.lang, col |-> f.col]]

AllEntries == Entries(dir, Len(PivotFiles))

ValidEntry(e) == ValidRow(e.row)
HasPivot(e) == Len(e.row) >= 2 /\ Strip(e.row[e.col]) # EmptyStr

Pivot(e) == Strip(e.row[e.col])
Other(e) == Strip(e.row[3 - e.col])

PivotsOf(es) == [i \in 1..Len(es) |-> Pivot(es[i])]

\* the distinct elements of a sequence, in order of first appearance
RECURSIVE DistinctInOrder(_)
DistinctInOrder(q) ==
    IF q = <<>> THEN <<>>
    ELSE LET front == DistinctInOrder(SubSeq(q, 1, Len(q) - 1))
             last == q[Len(q)]
         IN  IF \E i \in 1..Len(front) : front[i] = last THEN front
             ELSE Append(front, last)

\* first column of the data rows of the output
PivotColumn == [i \in 1..(Len(output) - 1) |-> output[i + 1][1]]

Finished == mpc = "exit" /\ exitCode = 0

\* C5 as stated: the pivot column is the distinct trimmed pivot words of all
\* two-column rows of the English-keyed files, whatever their other cell holds.
C5_AllPivotWords ==
    Finished => PivotColumn = DistinctInOrder(PivotsOf(SelectSeq(AllEntries, HasPivot)))

\* C5: whenever the Merger writes an output, the pivot column of its data rows
\* is the sequence of distinct trimmed pivot words, in order of first
\* appearance (files in lexical name order, rows in file order), of the rows
\* that have two columns, both non-empty after trimming: as many rows as there
\* are such words, none twice, none empty.
C5_PivotColumn ==
    Finished =>
        LET words == PivotsOf(SelectSeq(AllEntries, ValidEntry)) IN
        /\ PivotColumn = DistinctInOrder(words)
        /\ Len(output) - 1 = Cardinality({words[i] : i \in 1..Len(words)})
        /\ \A i, j \in 1..Len(PivotColumn) :
               PivotColumn[i] = PivotColumn[j] => i = j
        /\ \A i \in 1..Len(PivotColumn) : PivotColumn[i] # EmptyStr
    /\ (outOpened /\ mpc = "exit" => exitCode = 0)

\* two files, three usable rows, one of them repeating a pivot word
C5_Witness ==
    /\ Finished
    /\ Cardinality(DOMAIN dir) >= 2
    /\ Len(output) - 1 = 2
    /\ Len(SelectSeq(AllEntries, ValidEntry)) = 3
    /\ parse_pair(fileList[1])[2] = "en"

NoPivotFile == \A i \in 1..Len(PivotFiles) : PivotFiles[i].name \notin DOMAIN dir

\* C6: with no English-keyed file in the directory the Merger never opens the
\* output file, writes no row, and returns 2.
C6_NoInput ==
    NoPivotFile =>
        /\ ~outOpened
        /\ output = <<>>
        /\ exitCode \in {-1, 2}
        /\ (mpc = "exit" => exitCode = 2)

\* a directory holding only files that are skipped, after the run
C6_Witness ==
    /\ NoPivotFile
    /\ Cardinality(DOMAIN dir) >= 2
    /\ mpc = "exit"
    /\ exitCode = 2

\* the other-language word of the last usable row for (english, lang), or ""
LastWord(es, english, lang) ==
    LET hits == {i \in 1..Len(es) : Pivot(es[i]) = english /\ es[i].lang = lang}
    IN  IF hits = {} THEN EmptyStr
        ELSE Other(es[CHOOSE i \in hits : \A j \in hits : j <= i])

HeaderIndex(lang) == CHOOSE j \in 1..Len(Header) : Header[j] = lang

\* C8: in the output, the cell of pivot word e and target language l is the
\* other-language word of the last usable row, in reading order, that has pivot
\* e in a file of language l (empty when there is none): rows of another
\* language do not change it.
C8_LastWriteWins ==
    Finished =>
        LET es == SelectSeq(AllEntries, ValidEntry) IN
        \A i \in 2..Len(output) : \A l \in Targets :
            output[i][HeaderIndex(l)] = LastWord(es, output[i][1], l)

\* one pivot word with two different Russian words in two files and a Dutch word
C8_Witness ==
    /\ Finished
    /\ LET es == SelectSeq(AllEntries, ValidEntry) IN
       \E i, j, k \in 1..Len(es) :
           /\ i < j
           /\ Pivot(es[i]) = Pivot(es[j]) /\ Pivot(es[k]) = Pivot(es[i])
           /\ es[i].lang = "ru" /\ es[j].lang = "ru" /\ es[k].lang = "nl"
           /\ es[i].col # es[j].col
           /\ Other(es[i]) # Other(es[j])
====
